---- MODULE Spec2Model ----
(***************************************************************************)
(* A model of src/src/inference.py: the Gaussian-noise step                *)
(* (add_gaussian_noise), the evaluation run (run_inferece) and the         *)
(* Grad-CAM run (run_gradcam), with the files they write and the hooks and *)
(* logs run_gradcam leaves on the model.                                   *)
(*                                                                         *)
(* Numbers.  Pixel values, noise and activations are real numbers in the   *)
(* code.  Here a pixel value is an integer count of tenths (One = 1.0),    *)
(* and every quantity that is divided (means, the normalised heatmap, the  *)
(* weighted metrics) is an exact fraction <<n, d>> in lowest terms, d > 0. *)
(* Floating-point rounding is not modelled.                                *)
(***************************************************************************)
EXTENDS Integers, Sequences, FiniteSets

VARIABLES
    \* ---- the session: calls of run_inferece and run_gradcam on one model
    pc,              \* "off" | "idle" | "infer" | "gradcam_batch" | "gradcam_sample"
    dataset,         \* the test set on disk, in loader order: [img, label]
    batch_size,      \* the loader's batch size
    model_training,  \* the model's training flag (model.eval() clears it)
    fwd_hooks,       \* forward hooks on the target layer: the calls that registered them
    bwd_hooks,       \* full backward hooks on the target layer, likewise
    activations,     \* call -> the `activations` list of that call's closure
    gradients,       \* call -> the `gradients` list of that call's closure
    call_no,         \* calls started so far; the running call's number
    noise_multiplier,
    lo,              \* samples the loader had yielded before the current batch
    pos,             \* samples the loader has yielded so far in this call
    inputs,          \* the current batch as passed to the model
    preds,           \* the predictions of the current batch
    i,               \* run_gradcam's index into the batch (0-based)
    sample_idx,      \* run_gradcam's running sample index
    all_preds,
    all_labels,
    metrics_file,    \* [exists, lines]: the file at metrics_path
    cm_file,         \* the image at confusion_matrix_path
    out_dir,         \* [exists, files]: the directory gradcam_output_dir
    \* ---- history, written only to state the properties
    fed,             \* every sample tensor this call passed to the model, in order
    written,         \* the names of the files this call wrote, in order
    used,            \* what lines 140-141 read for the last sample
    inf_history,     \* the noise multipliers of the completed run_inferece calls
    \* ---- the direct call of add_gaussian_noise (SpecNoise)
    noise_pc,        \* "ready" | "returned"
    noise_in,        \* the tensor argument
    noise_args,      \* [mean, multiplier, z]: the arguments and the randn draw
    noise_out,       \* the returned tensor
    \* ---- the Grad-CAM computation of one sample (SpecHeatmap)
    cam_pc,          \* "ready" | "done"
    cam_act0,        \* the activation row as the forward hook captured it
    cam_act,         \* the same row of the log, scaled in place by the code
    cam_grad,        \* the gradient row of the sample
    cam_heat         \* the normalised heatmap

noise_vars == <<noise_pc, noise_in, noise_args, noise_out>>
cam_vars == <<cam_pc, cam_act0, cam_act, cam_grad, cam_heat>>
run_vars == <<pc, dataset, batch_size, model_training, fwd_hooks, bwd_hooks,
              activations, gradients, call_no, noise_multiplier, lo, pos, inputs,
              preds, i, sample_idx, all_preds, all_labels, metrics_file, cm_file,
              out_dir, fed, written, used, inf_history>>
vars == <<run_vars, noise_vars, cam_vars>>

-----------------------------------------------------------------------------
(* Bounds and value pools *)

MaxLen == 2          \* elements of a tensor handed to add_gaussian_noise
MaxMult == 2         \* noise multipliers 0..MaxMult
MaxCalls == 2        \* calls of run_inferece / run_gradcam in one session
MaxSamples == 3      \* samples of the test set
MaxBatch == 2        \* the loader's batch size is 1..MaxBatch
MaxChannels == 2     \* channels of the target layer's activation
CamPixelCounts == {1, 2}                 \* spatial sizes h*w of the activation
ActValues == {-1, 0, 2}                  \* activation values
GradValues == {-1, 1}                    \* gradient values
PixelValues == {-10, -5, 0, 5, 10, 15}   \* -1.0 .. 1.5: below, inside, above [0, 1]
NoiseDraws == {-2, 0, 1}                 \* values randn may draw
MeanValues == {-5, 0, 5}                 \* the mean argument
RunMultipliers == {0, 2}                 \* noise_multiplier of a run
RunNoiseDraws == {-2, 1}                 \* values randn may draw during a run
\* the image of the k-th sample of the test set, normalised to [-1, 1]
PoolImages == << <<-10>>, <<6>>, <<10>>, <<-4>>, <<0>>, <<3>> >>

One == 10            \* 1.0, the upper clamp bound, in tenths
Std == 1             \* std = 0.1, in tenths
EpsDen == 100000000  \* 1e-8 = 1 / EpsDen

-----------------------------------------------------------------------------
(* Sequences *)

RECURSIVE SumSeq(_)
SumSeq(s) == IF s = <<>> THEN 0 ELSE Head(s) + SumSeq(Tail(s))

SeqsUpTo(S, n) == UNION {[1..k -> S] : k \in 1..n}

-----------------------------------------------------------------------------
(* Exact fractions <<n, d>>, d > 0, in lowest terms; Frac(n, d) is n / d for *)
(* any d # 0.                                                              *)

Abs(x) == IF x < 0 THEN -x ELSE x

RECURSIVE GCD(_, _)
GCD(a, b) == IF b = 0 THEN a ELSE GCD(b, a % b)

Frac(n, d) ==
    LET g == GCD(Abs(n), Abs(d))
        sgn == IF d < 0 THEN -1 ELSE 1
    IN  <<(sgn * n) \div g, (sgn * d) \div g>>
FInt(n) == <<n, 1>>
FAdd(x, y) ==
    LET g == GCD(x[2], y[2])
    IN  Frac(x[1] * (y[2] \div g) + y[1] * (x[2] \div g), (x[2] \div g) * y[2])
FMul(x, y) ==
    LET a == Frac(x[1], y[2])
        b == Frac(y[1], x[2])
    IN  <<a[1] * b[1], a[2] * b[2]>>
FDivInt(x, k) == FMul(x, <<1, k>>)
\* x / y for y # 0
FDiv(x, y) == FMul(x, <<y[2], y[1]>>)
FLess(x, y) == x[1] * y[2] < y[1] * x[2]

RECURSIVE FSum(_)
FSum(s) == IF s = <<>> THEN FInt(0) ELSE FAdd(Head(s), FSum(Tail(s)))

RECURSIVE FMaxSeq(_)
FMaxSeq(s) ==
    IF Len(s) = 1 THEN s[1]
    ELSE LET m == FMaxSeq(Tail(s)) IN IF FLess(s[1], m) THEN m ELSE s[1]

-----------------------------------------------------------------------------
(* add_gaussian_noise *)

\* torch.clamp(x, lo, hi) of one element
\* (variant: the upper bound dropped)
ClampNoUpper(x, min, max) == IF x < min THEN min ELSE x
Clamp(x, min, max) == IF x < min THEN min ELSE IF x > max THEN max ELSE x

\* one element of torch.randn_like(tensor) * std * multiplier + mean
\* (variant: the multiplier dropped)
GaussianNoiseUnscaled(z, mean, std, multiplier) == z * std + mean
GaussianNoise(z, mean, std, multiplier) == z * std * multiplier + mean

\* add_gaussian_noise on a flat tensor; z is the draw of randn_like(tensor)
add_gaussian_noise(tensor, z, mean, std, multiplier) ==
    [k \in 1..Len(tensor) |->
        Clamp(tensor[k] + GaussianNoise(z[k], mean, std, multiplier), 0, One)]

-----------------------------------------------------------------------------
(* The Grad-CAM computation of one sample, lines 140-148.  A row of the      *)
(* activation or gradient log is a tensor [channel][pixel] (the two spatial  *)
(* axes flattened) of fractions.                                             *)

\* 1e-8; the tensors of the heatmap computation are in units of 1.0
Eps == <<1, EpsDen>>

\* torch.mean(gradients[-1][i], dim=(1, 2)): the spatial mean of each channel
\* (variant: the spatial sum instead of the mean)
PooledGradSum(grad) == [j \in 1..Len(grad) |-> FSum(grad[j])]
PooledGrad(grad) == [j \in 1..Len(grad) |-> FDivInt(FSum(grad[j]), Len(grad[j]))]

\* for j: activation[j, :, :] *= pooled_grad[j]; the row as it is afterwards
ScaleChannels(activation, pooled_grad) ==
    [j \in 1..Len(activation) |->
        [p \in 1..Len(activation[j]) |-> FMul(activation[j][p], pooled_grad[j])]]

\* torch.mean(activation, dim=0): the mean across the channel axis
ChannelMean(activation) ==
    [p \in 1..Len(activation[1]) |->
        FDivInt(FSum([j \in 1..Len(activation) |-> activation[j][p]]),
                Len(activation))]

\* np.maximum(heatmap, 0)
\* (variant: no clamp)
NpMaximumIdentity(heatmap) == heatmap
NpMaximum0(heatmap) ==
    [p \in 1..Len(heatmap) |-> IF heatmap[p][1] < 0 THEN FInt(0) ELSE heatmap[p]]

\* heatmap /= (heatmap.max() + 1e-8)
NormalizeByMax(heatmap) ==
    LET den == FAdd(FMaxSeq(heatmap), Eps)
    IN  [p \in 1..Len(heatmap) |-> FDiv(heatmap[p], den)]

\* lines 146-148, from the scaled activation row
Heatmap(scaled) == NormalizeByMax(NpMaximum0(ChannelMean(scaled)))

-----------------------------------------------------------------------------
(* The three specifications share the variables; each leaves the others'     *)
(* parts at these values.                                                    *)

InitCamIdle ==
    /\ cam_pc = "off"
    /\ cam_act0 = <<>>
    /\ cam_act = <<>>
    /\ cam_grad = <<>>
    /\ cam_heat = <<>>

InitNoiseIdle ==
    /\ noise_pc = "off"
    /\ noise_in = <<>>
    /\ noise_args = [mean |-> 0, multiplier |-> 0, z |-> <<>>]
    /\ noise_out = <<>>

\* nothing read yet
NoUse == [i |-> -1]

InitRunIdle ==
    /\ pc = "off"
    /\ dataset = <<>>
    /\ batch_size = 1
    /\ model_training = FALSE
    /\ fwd_hooks = <<>>
    /\ bwd_hooks = <<>>
    /\ activations = <<>>
    /\ gradients = <<>>
    /\ call_no = 0
    /\ noise_multiplier = 0
    /\ lo = 0
    /\ pos = 0
    /\ inputs = <<>>
    /\ preds = <<>>
    /\ i = 0
    /\ sample_idx = 0
    /\ all_preds = <<>>
    /\ all_labels = <<>>
    /\ metrics_file = [exists |-> FALSE, lines |-> <<>>]
    /\ cm_file = <<>>
    /\ out_dir = [exists |-> FALSE, files |-> {}]
    /\ fed = <<>>
    /\ written = <<>>
    /\ used = NoUse
    /\ inf_history = <<>>

-----------------------------------------------------------------------------
(* SpecHeatmap: the computation on any activation/gradient pair *)

IntTensors(C, P, S) == [1..C -> [1..P -> {FInt(v) : v \in S}]]

InitHeatmap ==
    /\ cam_pc = "ready"
    /\ \E C \in 1..MaxChannels, P \in CamPixelCounts :
          /\ cam_act0 \in IntTensors(C, P, ActValues)
          /\ cam_grad \in IntTensors(C, P, GradValues)
    /\ cam_act = cam_act0
    /\ cam_heat = <<>>
    /\ InitNoiseIdle
    /\ InitRunIdle

GradcamSampleMath ==
    /\ cam_pc = "ready"
    /\ LET scaled == ScaleChannels(cam_act, PooledGrad(cam_grad))
       IN  /\ cam_act' = scaled
           /\ cam_heat' = Heatmap(scaled)
    /\ cam_pc' = "done"
    /\ UNCHANGED <<cam_act0, cam_grad, noise_vars, run_vars>>

NextHeatmap == GradcamSampleMath

SpecHeatmap == InitHeatmap /\ [][NextHeatmap]_vars

CamDone == cam_pc = "done"

\* the unnormalised sum-based map: sum_j act0[j][p] * spatial mean of grad[j]
RefWeight(j) ==
    LET P == Len(cam_grad[j])
        s == SumSeq([p \in 1..P |-> cam_grad[j][p][1]])
    IN  Frac(s, P)
RefSumMap ==
    [p \in 1..Len(cam_act0[1]) |->
        LET s == FSum([j \in 1..Len(cam_act0) |-> FMul(cam_act0[j][p], RefWeight(j))])
        IN  IF s[1] < 0 THEN FInt(0) ELSE s]
\* the map divided by its own maximum plus k * 1e-8
RefNormalized(k) ==
    LET den == FAdd(FMaxSeq(RefSumMap), <<k, EpsDen>>)
    IN  [p \in 1..Len(RefSumMap) |-> FDiv(RefSumMap[p], den)]

\* C6: every value of the normalised heatmap lies in [0, 1]; and when the
\* activation of the sample is all zero the heatmap is all zero.
C6_HeatmapInUnitInterval ==
    CamDone =>
        /\ \A p \in 1..Len(cam_heat) :
              /\ cam_heat[p][2] > 0
              /\ 0 <= cam_heat[p][1] /\ cam_heat[p][1] <= cam_heat[p][2]
        /\ (\A j \in 1..Len(cam_act0) : \A p \in 1..Len(cam_act0[j]) :
                cam_act0[j][p] = FInt(0))
              => \A p \in 1..Len(cam_heat) : cam_heat[p] = FInt(0)

\* C6 witness: a sample whose weighted map has a negative value (clamped to
\* zero) and a positive value (normalised to just below one).
C6_Witness ==
    /\ CamDone
    /\ \E p \in 1..Len(cam_heat) : ChannelMean(cam_act)[p][1] < 0 /\ cam_heat[p][1] = 0
    /\ \E p \in 1..Len(cam_heat) : cam_heat[p][1] > 0

\* C10 as stated: the heatmap equals the map obtained by summing the weighted
\* channels, clamping negatives to zero and dividing by max + 1e-8.
C10_EqualsSumReference == CamDone => cam_heat = RefNormalized(1)

\* C10 amended: the code averages the weighted channels instead of summing
\* them, so the heatmap equals the sum-based clamped map divided by its
\* maximum plus C * 1e-8, C the number of channels.
C10_EqualsMeanReference == CamDone => cam_heat = RefNormalized(Len(cam_act0))

\* C10 witness: a sample with two channels or more, both with a non-zero
\* weight, and a heatmap that is not all zero.
C10_Witness ==
    /\ CamDone
    /\ Len(cam_act0) >= 2
    /\ \A j \in 1..Len(cam_grad) : RefWeight(j)[1] # 0
    /\ \E p \in 1..Len(cam_heat) : cam_heat[p][1] > 0

-----------------------------------------------------------------------------
(* SpecNoise: add_gaussian_noise called directly on any tensor *)

InitNoise ==
    /\ noise_pc = "ready"
    /\ noise_in \in SeqsUpTo(PixelValues, MaxLen)
    /\ noise_args = [mean |-> 0, multiplier |-> 0, z |-> <<>>]
    /\ noise_out = <<>>
    /\ InitCamIdle
    /\ InitRunIdle

CallAddGaussianNoise ==
    /\ noise_pc = "ready"
    /\ \E mean \in MeanValues, multiplier \in 0..MaxMult,
          z \in [1..Len(noise_in) -> NoiseDraws] :
          /\ noise_args' = [mean |-> mean, multiplier |-> multiplier, z |-> z]
          /\ noise_out' = add_gaussian_noise(noise_in, z, mean, Std, multiplier)
    /\ noise_pc' = "returned"
    /\ UNCHANGED <<noise_in, cam_vars, run_vars>>

NextNoise == CallAddGaussianNoise

SpecNoise == InitNoise /\ [][NextNoise]_vars

NoiseReturned == noise_pc = "returned"

\* C3: for every multiplier > 0 and every input tensor, every element of the
\* tensor add_gaussian_noise returns lies in [0, 1], whatever noise is drawn.
C3_OutputInUnitInterval ==
    (NoiseReturned /\ noise_args.multiplier > 0) =>
        \A k \in 1..Len(noise_out) : 0 <= noise_out[k] /\ noise_out[k] <= One

\* C3 witness: a call with multiplier > 0 where one element was pushed above 1
\* and clamped down, and one element was below 0 and clamped up.
C3_Witness ==
    /\ NoiseReturned /\ noise_args.multiplier > 0
    /\ \E k \in 1..Len(noise_in) :
          /\ noise_in[k] + GaussianNoise(noise_args.z[k], noise_args.mean, Std,
                                         noise_args.multiplier) > One
          /\ noise_out[k] = One
    /\ \E k \in 1..Len(noise_in) :
          /\ noise_in[k] + GaussianNoise(noise_args.z[k], noise_args.mean, Std,
                                         noise_args.multiplier) < 0
          /\ noise_out[k] = 0

\* C4 as stated: with multiplier 0 and mean 0 the returned tensor equals the
\* input element for element, for every input tensor.
C4_NoOpAtZero ==
    (NoiseReturned /\ noise_args.multiplier = 0 /\ noise_args.mean = 0) =>
        noise_out = noise_in

\* C4 amended: with multiplier 0 and mean 0 no noise is added, but the clamp
\* still applies: an element inside [0, 1] is returned unchanged, an element
\* below 0 is returned as 0 and an element above 1 as 1.
C4_ClampOnlyAtZero ==
    (NoiseReturned /\ noise_args.multiplier = 0 /\ noise_args.mean = 0) =>
        /\ Len(noise_out) = Len(noise_in)
        /\ \A k \in 1..Len(noise_in) :
              /\ (0 <= noise_in[k] /\ noise_in[k] <= One) => noise_out[k] = noise_in[k]
              /\ noise_in[k] < 0 => noise_out[k] = 0
              /\ noise_in[k] > One => noise_out[k] = One

\* C4 witness: a call with multiplier 0, mean 0 and a non-zero draw, on a tensor
\* with an element inside [0, 1] and an element outside it.
C4_Witness ==
    /\ NoiseReturned /\ noise_args.multiplier = 0 /\ noise_args.mean = 0
    /\ \E k \in 1..Len(noise_in) : noise_args.z[k] # 0
    /\ \E k \in 1..Len(noise_in) : 0 < noise_in[k] /\ noise_in[k] < One
    /\ \E k \in 1..Len(noise_in) : noise_in[k] < 0 /\ noise_out[k] # noise_in[k]

-----------------------------------------------------------------------------
(* The test set and its loader, get_test_loader *)

\* test_dataset.classes: the class directories, sorted
classes == <<"c0", "c1">>
NumClasses == Len(classes)

\* ImageFolder lists the samples class by class, every class directory holding
\* at least one image; shuffle=False keeps that order.
DatasetOf(n0, n1) ==
    [k \in 1..(n0 + n1) |->
        [img |-> PoolImages[k], label |-> IF k <= n0 THEN 0 ELSE 1]]
Datasets ==
    {DatasetOf(c[1], c[2]) :
     c \in {d \in (1..MaxSamples) \X (1..MaxSamples) : d[1] + d[2] <= MaxSamples}}

Min(a, b) == IF a < b THEN a ELSE b

\* the batch the loader yields after `done` samples
LoaderBatch(ds, size, done) == SubSeq(ds, done + 1, Min(done + size, Len(ds)))

Images(batch) == [b \in 1..Len(batch) |-> batch[b].img]
Labels(batch) == [b \in 1..Len(batch) |-> batch[b].label]

-----------------------------------------------------------------------------
(* The model the caller supplies: a target layer of two channels followed by *)
(* a linear head.                                                            *)

ConvW == <<1, -1>>
HeadW == << <<1, 0>>, <<0, 1>> >>
HeadB == << <<0, 1>>, <<1, 20>> >>

\* the target layer's output for one sample: [channel][pixel], in units of 1.0
TargetLayer(img) ==
    [j \in 1..Len(ConvW) |-> [p \in 1..Len(img) |-> Frac(ConvW[j] * img[p], One)]]

\* the logits of one sample from its target-layer output
Logits(act) ==
    [c \in 1..NumClasses |->
        FAdd(FSum([j \in 1..Len(act) |-> FMul(FInt(HeadW[c][j]), FSum(act[j]))]),
             HeadB[c])]

\* torch.max(outputs, 1)[1] of one sample: the class (0-based) of the largest logit
Argmax(logits) ==
    CHOOSE c \in 0..(Len(logits) - 1) :
        /\ \A d \in 0..(Len(logits) - 1) : ~FLess(logits[c + 1], logits[d + 1])
        /\ \A d \in 0..(c - 1) : FLess(logits[d + 1], logits[c + 1])

Predict(img) == Argmax(Logits(TargetLayer(img)))

\* d outputs[i, c] / d (target-layer output), the row of sample i
GradRow(img, c) ==
    [j \in 1..Len(ConvW) |-> [p \in 1..Len(img) |-> FInt(HeadW[c + 1][j])]]
ZeroRow(img) ==
    [j \in 1..Len(ConvW) |-> [p \in 1..Len(img) |-> FInt(0)]]

-----------------------------------------------------------------------------
(* sklearn.metrics, as run_inferece uses them *)

Range(s) == {s[k] : k \in DOMAIN s}
Count(S) == Cardinality(S)

RECURSIVE SortedSeq(_)
SortedSeq(S) ==
    IF S = {} THEN <<>>
    ELSE LET m == CHOOSE x \in S : \A y \in S : x <= y
         IN  <<m>> \o SortedSeq(S \ {m})

\* the labels sklearn scores: the sorted labels that occur in either list
UniqueLabels(y_true, y_pred) == SortedSeq(Range(y_true) \cup Range(y_pred))

\* confusion_matrix(y_true, y_pred): rows actual, columns predicted, over the
\* sorted labels that occur in either
confusion_matrix(y_true, y_pred) ==
    LET lab == UniqueLabels(y_true, y_pred)
    IN  [a \in 1..Len(lab) |-> [b \in 1..Len(lab) |->
            Count({k \in 1..Len(y_true) : y_true[k] = lab[a] /\ y_pred[k] = lab[b]})]]

Support(y_true, c) == Count({k \in 1..Len(y_true) : y_true[k] = c})
Predicted(y_pred, c) == Count({k \in 1..Len(y_pred) : y_pred[k] = c})
TruePos(y_true, y_pred, c) ==
    Count({k \in 1..Len(y_true) : y_true[k] = c /\ y_pred[k] = c})

\* a ratio with sklearn's zero_division default: 0 when the denominator is 0
Ratio(n, d) == IF d = 0 THEN FInt(0) ELSE Frac(n, d)

PrecisionOf(y_true, y_pred, c) ==
    Ratio(TruePos(y_true, y_pred, c), Predicted(y_pred, c))
RecallOf(y_true, y_pred, c) ==
    Ratio(TruePos(y_true, y_pred, c), Support(y_true, c))
F1Of(y_true, y_pred, c) ==
    Ratio(2 * TruePos(y_true, y_pred, c), Predicted(y_pred, c) + Support(y_true, c))

\* average='weighted': the per-class scores weighted by support
Weighted(y_true, lab, score) ==
    FDivInt(FSum([a \in 1..Len(lab) |->
                    FMul(FInt(Support(y_true, lab[a])), score[a])]),
            Len(y_true))

f1_score(y_true, y_pred) ==
    LET lab == UniqueLabels(y_true, y_pred)
    IN  Weighted(y_true, lab, [a \in 1..Len(lab) |-> F1Of(y_true, y_pred, lab[a])])
precision_score(y_true, y_pred) ==
    LET lab == UniqueLabels(y_true, y_pred)
    IN  Weighted(y_true, lab, [a \in 1..Len(lab) |-> PrecisionOf(y_true, y_pred, lab[a])])
recall_score(y_true, y_pred) ==
    LET lab == UniqueLabels(y_true, y_pred)
    IN  Weighted(y_true, lab, [a \in 1..Len(lab) |-> RecallOf(y_true, y_pred, lab[a])])

-----------------------------------------------------------------------------
(* Files *)

\* a line of the csv file: the header line or a data row, with its cells
Header == [kind |-> "header",
           cells |-> <<"Noise Multiplier", "F1 Score", "Precision", "Recall">>]
DataRow(cells) == [kind |-> "row", cells |-> cells]

\* header=not os.path.exists(metrics_path)
\* (variant: header=True)
WriteHeaderAlways(file) == TRUE
WriteHeader(file) == ~file.exists

\* DataFrame.to_csv(path, index=False, mode='a', header=...)
to_csv(file, row, header) ==
    [exists |-> TRUE,
     lines |-> file.lines \o (IF header THEN <<Header>> ELSE <<>>) \o <<DataRow(row)>>]

\* f"gradcam_sample_{sample_idx}_class_{classes[preds[i]]}.png"
GradcamFileName(idx, class_name) == <<"gradcam_sample", idx, "class", class_name>>

\* cv2.imwrite: a file of that name is replaced
imwrite(dir, name, image) ==
    [dir EXCEPT !.files = {f \in @ : f.name # name} \cup {[name |-> name, image |-> image]}]

-----------------------------------------------------------------------------
(* Spec: a session of run_inferece and run_gradcam calls on one model, one   *)
(* test set, one metrics_path and one gradcam_output_dir.                    *)

Init ==
    /\ pc = "idle"
    /\ dataset \in Datasets
    /\ batch_size \in 1..MaxBatch
    /\ model_training \in BOOLEAN
    /\ fwd_hooks = <<>>
    /\ bwd_hooks = <<>>
    /\ activations = <<>>
    /\ gradients = <<>>
    /\ call_no = 0
    /\ noise_multiplier = 0
    /\ lo = 0
    /\ pos = 0
    /\ inputs = <<>>
    /\ preds = <<>>
    /\ i = 0
    /\ sample_idx = 0
    /\ all_preds = <<>>
    /\ all_labels = <<>>
    /\ metrics_file = [exists |-> FALSE, lines |-> <<>>]
    /\ cm_file = <<>>
    /\ out_dir = [exists |-> FALSE, files |-> {}]
    /\ fed = <<>>
    /\ written = <<>>
    /\ used = NoUse
    /\ inf_history = <<>>
    /\ InitNoiseIdle
    /\ InitCamIdle

\* if noise_multiplier > 0
\* (variant: >= 0)
NoiseBranchNonNegative(multiplier) == multiplier >= 0
NoiseBranch(multiplier) == multiplier > 0

\* the randn_like draws a batch may get; none is made when the branch is skipped
BatchDraws(batch, multiplier) ==
    IF NoiseBranch(multiplier)
    THEN [1..Len(batch) -> [1..Len(batch[1].img) -> RunNoiseDraws]]
    ELSE {<<>>}

\* lines 45-46 and 123-124: the batch as passed on to the model; z is the draw
\* (add_gaussian_noise works element by element, so row by row)
MaybeNoisy(images, z, multiplier) ==
    IF NoiseBranch(multiplier)
    THEN [b \in 1..Len(images) |->
             add_gaussian_noise(images[b], z[b], 0, Std, multiplier)]
    ELSE images

\* list.extend
\* (variant: assignment instead of extend)
ExtendOverwrite(list, items) == items
Extend(list, items) == list \o items

\* model(inputs): every forward hook on the target layer appends the layer's
\* output to its own closure's list
ForwardHooksFire(logs, batch_inputs) ==
    [h \in DOMAIN logs |->
        IF h \in Range(fwd_hooks)
        THEN Append(logs[h],
                    [call |-> call_no, lo |-> pos,
                     rows |-> [b \in 1..Len(batch_inputs) |->
                                  TargetLayer(batch_inputs[b])]])
        ELSE logs[h]]

\* class_score.backward(): every full backward hook on the target layer
\* appends grad_output[0] to its own closure's list
BackwardHooksFire(logs, k, c) ==
    [h \in DOMAIN logs |->
        IF h \in Range(bwd_hooks)
        THEN Append(logs[h],
                    [call |-> call_no, lo |-> lo, i |-> k,
                     rows |-> [b \in 1..Len(inputs) |->
                                  IF b = k + 1 THEN GradRow(inputs[b], c)
                                  ELSE ZeroRow(inputs[b])]])
        ELSE logs[h]]

\* lines 141-144 on the logged batch tensor: activation = activations[-1][i] is
\* a view, so the scaling writes into row i of the logged tensor
\* (variant: activations[-1][:, j] *= pooled_grad[j], every row of the batch)
ScaleWholeBatchInPlace(rows, k, pooled_grad) ==
    [b \in 1..Len(rows) |-> ScaleChannels(rows[b], pooled_grad)]
ScaleRowInPlace(rows, k, pooled_grad) ==
    [rows EXCEPT ![k + 1] = ScaleChannels(@, pooled_grad)]

\* the logged tensor is one object, held by the list of every hook that fired
\* at this forward pass
WriteThroughLogs(logs, rows) ==
    [h \in DOMAIN logs |->
        IF h \in Range(fwd_hooks)
        THEN [logs[h] EXCEPT ![Len(logs[h])].rows = rows]
        ELSE logs[h]]

\* sample_idx += 1
\* (variant: the increment missing)
NextSampleIdxStuck(idx) == idx
NextSampleIdx(idx) == idx + 1

Last(s) == s[Len(s)]

\* run_inferece, lines 37-40
InferStart ==
    /\ pc = "idle"
    /\ call_no < MaxCalls
    /\ \E m \in RunMultipliers : noise_multiplier' = m
    /\ call_no' = call_no + 1
    /\ all_preds' = <<>>
    /\ all_labels' = <<>>
    /\ lo' = 0
    /\ pos' = 0
    /\ inputs' = <<>>
    /\ preds' = <<>>
    /\ fed' = <<>>
    /\ written' = <<>>
    /\ used' = NoUse
    /\ pc' = "infer"
    /\ UNCHANGED <<dataset, batch_size, model_training, fwd_hooks, bwd_hooks,
                   activations, gradients, i, sample_idx, metrics_file, cm_file,
                   out_dir, inf_history, noise_vars, cam_vars>>

\* run_inferece, lines 43-55: one batch
InferBatch ==
    /\ pc = "infer"
    /\ pos < Len(dataset)
    /\ LET batch == LoaderBatch(dataset, batch_size, pos)
       IN  \E z \in BatchDraws(batch, noise_multiplier) :
             LET x == MaybeNoisy(Images(batch), z, noise_multiplier)
                 y == [b \in 1..Len(x) |-> Predict(x[b])]
             IN  /\ inputs' = x
                 /\ preds' = y
                 /\ activations' = ForwardHooksFire(activations, x)
                 /\ all_preds' = Extend(all_preds, y)
                 /\ all_labels' = Extend(all_labels, Labels(batch))
                 /\ fed' = fed \o x
                 /\ lo' = pos
                 /\ pos' = pos + Len(batch)
    /\ UNCHANGED <<pc, dataset, batch_size, model_training, fwd_hooks, bwd_hooks,
                   gradients, call_no, noise_multiplier, i, sample_idx,
                   metrics_file, cm_file, out_dir, written, used, inf_history,
                   noise_vars, cam_vars>>

\* run_inferece, lines 57-90: the metrics, the csv row, the confusion matrix
InferFinish ==
    /\ pc = "infer"
    /\ pos = Len(dataset)
    /\ LET cm == confusion_matrix(all_labels, all_preds)
           row == <<noise_multiplier,
                    f1_score(all_labels, all_preds),
                    precision_score(all_labels, all_preds),
                    recall_score(all_labels, all_preds)>>
       IN  /\ metrics_file' = to_csv(metrics_file, row, WriteHeader(metrics_file))
           /\ cm_file' = [cm |-> cm, index |-> classes, columns |-> classes,
                          title |-> noise_multiplier]
    /\ inf_history' = Append(inf_history, noise_multiplier)
    /\ pc' = "idle"
    /\ UNCHANGED <<dataset, batch_size, model_training, fwd_hooks, bwd_hooks,
                   activations, gradients, call_no, noise_multiplier, lo, pos,
                   inputs, preds, i, sample_idx, all_preds, all_labels, out_dir,
                   fed, written, used, noise_vars, cam_vars>>

\* run_gradcam, lines 98-120
GradcamStart ==
    /\ pc = "idle"
    /\ call_no < MaxCalls
    /\ \E m \in RunMultipliers : noise_multiplier' = m
    /\ call_no' = call_no + 1
    /\ out_dir' = [out_dir EXCEPT !.exists = TRUE]
    /\ all_preds' = <<>>
    /\ all_labels' = <<>>
    /\ gradients' = [h \in DOMAIN gradients \cup {call_no + 1} |->
                        IF h = call_no + 1 THEN <<>> ELSE gradients[h]]
    /\ activations' = [h \in DOMAIN activations \cup {call_no + 1} |->
                          IF h = call_no + 1 THEN <<>> ELSE activations[h]]
    /\ fwd_hooks' = Append(fwd_hooks, call_no + 1)
    /\ bwd_hooks' = Append(bwd_hooks, call_no + 1)
    /\ model_training' = FALSE
    /\ sample_idx' = 0
    /\ lo' = 0
    /\ pos' = 0
    /\ i' = 0
    /\ inputs' = <<>>
    /\ preds' = <<>>
    /\ fed' = <<>>
    /\ written' = <<>>
    /\ used' = NoUse
    /\ pc' = "gradcam_batch"
    /\ UNCHANGED <<dataset, batch_size, metrics_file, cm_file, inf_history,
                   noise_vars, cam_vars>>

\* run_gradcam, lines 122-130: the forward pass of one batch
GradcamForward ==
    /\ pc = "gradcam_batch"
    /\ pos < Len(dataset)
    /\ LET batch == LoaderBatch(dataset, batch_size, pos)
       IN  \E z \in BatchDraws(batch, noise_multiplier) :
             LET x == MaybeNoisy(Images(batch), z, noise_multiplier)
             IN  /\ inputs' = x
                 /\ preds' = [b \in 1..Len(x) |-> Predict(x[b])]
                 /\ activations' = ForwardHooksFire(activations, x)
                 /\ fed' = fed \o x
                 /\ lo' = pos
                 /\ pos' = pos + Len(batch)
    /\ i' = 0
    /\ used' = NoUse
    /\ pc' = "gradcam_sample"
    /\ UNCHANGED <<dataset, batch_size, model_training, fwd_hooks, bwd_hooks,
                   gradients, call_no, noise_multiplier, sample_idx, all_preds,
                   all_labels, metrics_file, cm_file, out_dir, written,
                   inf_history, noise_vars, cam_vars>>

\* run_gradcam, lines 132-160: one sample of the batch
GradcamSample ==
    /\ pc = "gradcam_sample"
    /\ i < Len(inputs)
    /\ LET grads == BackwardHooksFire(gradients, i, preds[i + 1])
           logged == Last(activations[call_no])
           grad_row == Last(grads[call_no]).rows[i + 1]
           pooled_grad == PooledGrad(grad_row)
           rows == ScaleRowInPlace(logged.rows, i, pooled_grad)
           heatmap == Heatmap(rows[i + 1])
           name == GradcamFileName(sample_idx, classes[preds[i + 1] + 1])
       IN  /\ gradients' = grads
           /\ activations' = WriteThroughLogs(activations, rows)
           /\ used' = [i |-> i,
                       act |-> logged.rows[i + 1],
                       act_src |-> [call |-> logged.call, lo |-> logged.lo],
                       grad |-> grad_row,
                       grad_src |-> [call |-> Last(grads[call_no]).call,
                                     lo |-> Last(grads[call_no]).lo,
                                     i |-> Last(grads[call_no]).i]]
           /\ out_dir' = imwrite(out_dir, name, heatmap)
           /\ written' = Append(written, name)
    /\ sample_idx' = NextSampleIdx(sample_idx)
    /\ i' = i + 1
    /\ pc' = IF i + 1 < Len(inputs) THEN "gradcam_sample" ELSE "gradcam_batch"
    /\ UNCHANGED <<dataset, batch_size, model_training, fwd_hooks, bwd_hooks,
                   call_no, noise_multiplier, lo, pos, inputs, preds, all_preds,
                   all_labels, metrics_file, cm_file, fed, inf_history,
                   noise_vars, cam_vars>>

\* run_gradcam returns when the loader is exhausted
GradcamReturn ==
    /\ pc = "gradcam_batch"
    /\ pos = Len(dataset)
    /\ pc' = "idle"
    /\ UNCHANGED <<dataset, batch_size, model_training, fwd_hooks, bwd_hooks,
                   activations, gradients, call_no, noise_multiplier, lo, pos,
                   inputs, preds, i, sample_idx, all_preds, all_labels,
                   metrics_file, cm_file, out_dir, fed, written, used,
                   inf_history, noise_vars, cam_vars>>

Next ==
    \/ InferStart
    \/ InferBatch
    \/ InferFinish
    \/ GradcamStart
    \/ GradcamForward
    \/ GradcamSample
    \/ GradcamReturn

Spec == Init /\ [][Next]_vars

-----------------------------------------------------------------------------
(* Properties of the session *)

N == Len(dataset)
InferLoopDone == pc = "infer" /\ pos = N
\* run_inferece has returned and no call has started since
InferReturned == pc = "idle" /\ all_labels # <<>>
GradcamLoopDone == pc = "gradcam_batch" /\ pos = N
\* run_gradcam has returned and no call has started since
GradcamReturned == pc = "idle" /\ written # <<>>

\* C1: after n >= 1 run_inferece calls on one metrics_path that did not exist
\* at first, the file holds one header line followed by n data rows in call
\* order, the k-th carrying the k-th call's noise multiplier; each call
\* appends exactly one row and leaves the header and earlier rows unchanged.
C1_FileShape ==
    IF inf_history = <<>>
    THEN ~metrics_file.exists /\ metrics_file.lines = <<>>
    ELSE /\ metrics_file.exists
         /\ Len(metrics_file.lines) = 1 + Len(inf_history)
         /\ metrics_file.lines[1] = Header
         /\ \A k \in 1..Len(inf_history) :
               /\ metrics_file.lines[k + 1].kind = "row"
               /\ metrics_file.lines[k + 1].cells[1] = inf_history[k]
C1_CallAppendsOneRow ==
    /\ (pc = "infer" /\ pc' = "idle") =>
          /\ Len(metrics_file'.lines) =
                Len(metrics_file.lines) + (IF metrics_file.lines = <<>> THEN 2 ELSE 1)
          /\ SubSeq(metrics_file'.lines, 1, Len(metrics_file.lines)) = metrics_file.lines
          /\ Last(metrics_file'.lines).kind = "row"
          /\ Last(metrics_file'.lines).cells[1] = noise_multiplier
    /\ ~(pc = "infer" /\ pc' = "idle") => metrics_file' = metrics_file
C1_MetricsFile == [](C1_FileShape) /\ [][C1_CallAppendsOneRow]_vars

\* C1 witness: two completed run_inferece calls with different noise
\* multipliers, the file holding the header and two rows.
C1_Witness ==
    /\ Len(inf_history) = 2
    /\ inf_history[1] # inf_history[2]
    /\ Len(metrics_file.lines) = 3

\* C2: after any sequence of invocations the model carries no state left by an
\* earlier invocation: between calls no hook is registered on it.
C2_NoHookLeftOnModel ==
    pc = "idle" => (fwd_hooks = <<>> /\ bwd_hooks = <<>>)

\* C5: in run_inferece and run_gradcam, when noise_multiplier is 0 every batch
\* passed to the model is exactly the batch the loader produced.
C5_NoNoiseAtZero ==
    noise_multiplier = 0 =>
        /\ Len(fed) = pos
        /\ fed = Images(SubSeq(dataset, 1, pos))
        /\ inputs # <<>> => inputs = Images(LoaderBatch(dataset, batch_size, lo))

\* C5 witness: a run_inferece call at multiplier 0 has completed, and then a
\* run_gradcam call at multiplier 0 has passed the whole test set, negative
\* pixel values included, to the model.
C5_Witness ==
    /\ inf_history = <<0>>
    /\ GradcamReturned
    /\ noise_multiplier = 0
    /\ Len(fed) = N
    /\ \E k \in 1..Len(fed) : \E p \in 1..Len(fed[k]) : fed[k][p] < 0

\* C7: after run_inferece has iterated over the N samples, all_labels and
\* all_preds hold N entries each, entry k belonging to the k-th sample in
\* loader order; and the confusion matrix built from them has as row sums the
\* samples of each actual class, as column sums the samples predicted as each
\* class, as diagonal sum the correct predictions and as total N.
C7_ListsAndMatrix ==
    /\ (InferLoopDone \/ InferReturned) =>
          /\ Len(all_labels) = N /\ Len(all_preds) = N /\ Len(fed) = N
          /\ \A k \in 1..N :
                /\ all_labels[k] = dataset[k].label
                /\ all_preds[k] = Predict(fed[k])
    /\ InferReturned =>
          LET cm == cm_file.cm
          IN  /\ Len(cm) = NumClasses
              /\ \A a \in 1..NumClasses :
                    /\ Len(cm[a]) = NumClasses
                    /\ SumSeq(cm[a]) = Count({k \in 1..N : dataset[k].label = a - 1})
                    /\ SumSeq([r \in 1..NumClasses |-> cm[r][a]]) =
                          Count({k \in 1..N : Predict(fed[k]) = a - 1})
              /\ SumSeq([a \in 1..NumClasses |-> cm[a][a]]) =
                    Count({k \in 1..N : Predict(fed[k]) = dataset[k].label})
              /\ SumSeq([a \in 1..NumClasses |-> SumSeq(cm[a])]) = N

\* C7 witness: run_inferece has returned after a test set of three samples
\* came in two batches, with a correct and a wrong prediction among them.
C7_Witness ==
    /\ InferReturned
    /\ N = 3 /\ batch_size = 2
    /\ \E k \in 1..N : all_preds[k] = all_labels[k]
    /\ \E k \in 1..N : all_preds[k] # all_labels[k]

\* C8: one run_gradcam call over N samples, however they are split into
\* batches, writes N files, the k-th sample in loader order (k = 0..N-1) as
\* gradcam_sample_<k>_class_<predicted class name>.png; the names of one call
\* are pairwise distinct and every one of them is in the output directory.
C8_OneFilePerSample ==
    /\ pc \in {"gradcam_batch", "gradcam_sample"} =>
          /\ Len(written) = sample_idx
          /\ sample_idx = lo + i
    /\ (GradcamLoopDone \/ GradcamReturned) =>
          /\ Len(written) = N
          /\ \A k \in 1..N :
                /\ written[k] =
                      <<"gradcam_sample", k - 1, "class", classes[Predict(fed[k]) + 1]>>
                /\ \E f \in out_dir.files : f.name = written[k]
          /\ \A k, l \in 1..N : k # l => written[k] # written[l]
          /\ Cardinality({f.name : f \in out_dir.files}) >= N

\* C8 witness: run_gradcam has returned after a test set of three samples came
\* in two batches, the second batch starting at sample index 2.
C8_Witness ==
    /\ GradcamReturned
    /\ N = 3 /\ batch_size = 2
    /\ written[3][2] = 2

\* C9: for every sample i of every batch, the activation used is row i of the
\* current batch's forward output, with the values captured at forward time,
\* and the gradient used is the one sample i's own backward pass appended.
C9_FreshActivationAndGradient ==
    used # NoUse =>
        /\ used.act_src = [call |-> call_no, lo |-> lo]
        /\ used.act = TargetLayer(inputs[used.i + 1])
        /\ used.grad_src = [call |-> call_no, lo |-> lo, i |-> used.i]
        /\ used.grad = GradRow(inputs[used.i + 1], preds[used.i + 1])

\* C9 witness: the second sample of a batch has been processed, in a call that
\* follows an earlier run_gradcam call on the same model, after the first
\* sample's scaling changed the logged tensor.
C9_Witness ==
    /\ used # NoUse /\ used.i = 1
    /\ Len(fwd_hooks) = 2
    /\ Last(activations[call_no]).rows[1] # TargetLayer(inputs[1])
    /\ \E j \in 1..Len(used.act) : \E p \in 1..Len(used.act[j]) : used.act[j][p][1] # 0

====
